---- MODULE Spec2Model ----
(***************************************************************************)
(* A model of src/src/interpreter.c: the tree-walking evaluator `eval`,    *)
(* the body executor `eval_body` and the entry adapters.                   *)
(*                                                                         *)
(* SpecBody runs jl_interpret_call on a lowered body: one step per         *)
(* statement of eval_body, the C activations of eval_body (one more for    *)
(* every `enter`) kept as the sequence `frames`.                           *)
(* SpecNoFrame runs a body without an interpreter_state                    *)
(* (jl_toplevel_eval_body), SpecInterp a lambda with formals and actuals.  *)
(***************************************************************************)
EXTENDS Integers, Sequences, FiniteSets, TLC

VARIABLES
    istate,     \* the interpreter_state handed to eval: s, s->lam, and the actuals of the call
    stmts,      \* lam->code: the body being executed (a sequence of statements)
    frames,     \* the live activations of eval_body, outermost first; each holds its `i`
    eh,         \* jl_current_task->eh: the handler stack, innermost last
    locals,     \* s->locals: slots 0..nslots-1, then the SSA temps
    exc,        \* jl_exception_in_transit
    status,     \* "running", or how jl_interpret_call ended
    result,     \* the value eval_body returned
    toplevel,   \* the `toplevel` argument of eval_body
    jl_lineno,  \* the process line counter
    ev,         \* what the last step did (observation only)
    cstack,     \* the live activations of do_call, outermost first
    cstatus,    \* "running", or how the outermost do_call ended
    cresult,    \* the value the outermost do_call returned
    clog,       \* the argument evaluations and dispatches so far, in order
    jl_current_module,  \* the process-current module
    task_module,        \* jl_current_task->current_module
    inside_typedef,     \* the process-wide flag of jltypes
    bindings,   \* per module, the binding of the one type name of the model
    tstack,     \* the live activations evaluating top-level forms, outermost first
    tstatus,    \* "idle", "running", "unwinding" (an exception propagates), "done", "failed"
    tev,        \* what the last step did (observation only)
    hist        \* what became of the last top-level type form (for the properties)

bodyVars == <<istate, stmts, frames, eh, locals, exc, status, result, toplevel, jl_lineno, ev>>

callVars == <<cstack, cstatus, cresult, clog>>

topVars == <<jl_current_module, task_module, inside_typedef, bindings, tstack,
             tstatus, tev, hist>>

nonBodyVars == <<callVars, topVars>>

\* Everything of the body executor but the exception in transit.
bodyVarsButExc == <<istate, stmts, frames, eh, locals, status, result, toplevel, jl_lineno, ev>>

vars == <<bodyVars, callVars, topVars>>

----------------------------------------------------------------------------
(* Bounds of the model.                                                    *)

\* Longest body explored.
MaxBodyLen == 4
\* Deepest nesting of eval_body activations explored (each `enter` adds one).
MaxFrames == 3
\* Most formal arguments of a lambda explored.
MaxFormals == 2
\* Handlers the caller of jl_interpret_call has registered.
CallerHandlers == 1
\* lam->slotflags has this many entries.
NSlots == 1
\* lam->ssavaluetypes gives this many SSA temps.
NSSAValues == 1

\* size_t is narrower here than in any build (TLC's integers are 32 bits):
\* the labels of the model are tiny against either width, and only the
\* wrap-around of `label - 1` below zero is observable.
SizeTBits == 30

SizeTModulus == 2 ^ SizeTBits

\* A C integer expression assigned to the size_t `i`.
ToSizeT(x) == x % SizeTModulus

----------------------------------------------------------------------------
(* Values.  Every value is a record [t, v]; NULL is the absent value.      *)

NULL == [t |-> "null", v |-> ""]
jl_true == [t |-> "bool", v |-> "true"]
jl_false == [t |-> "bool", v |-> "false"]
jl_nothing == [t |-> "nothing", v |-> ""]
BoxLong(s) == [t |-> "long", v |-> s]
Sym(s) == [t |-> "symbol", v |-> s]

\* jl_error(msg): an ErrorException carrying msg.
ErrorException(msg) == [t |-> "ErrorException", v |-> msg]
\* jl_undefined_var_error(sym)
UndefVarError(sym) == [t |-> "UndefVarError", v |-> sym]
\* jl_type_error_rt(..., jl_bool_type, got)
TypeErrorBool == [t |-> "TypeError", v |-> "if: expected Bool"]

\* lam->slotnames
SlotNames == [n \in 1..(MaxFormals + NSlots + 1) |-> IF n = 1 THEN "x" ELSE IF n = 2 THEN "y" ELSE "z"]

----------------------------------------------------------------------------
(* IR nodes.                                                               *)

Lit(v) == [k |-> "lit", v |-> v]
SlotRef(n) == [k |-> "slot", n |-> n]
SSARef(id) == [k |-> "ssavalue", id |-> id]
TheException == [k |-> "the_exception"]
ErrorExpr(a) == [k |-> "error", args |-> a]

GotoNode(l) == [k |-> "goto", label |-> l]
ReturnStmt(e) == [k |-> "return", e |-> e]
AssignStmt(d, e) == [k |-> "assign", dest |-> d, e |-> e]
GotoIfNot(e, l) == [k |-> "goto_ifnot", e |-> e, label |-> l]
LineStmt(n) == [k |-> "line", line |-> n]
EnterStmt(l) == [k |-> "enter", label |-> l]
LeaveStmt(n) == [k |-> "leave", n |-> n]
NewVarNode(n) == [k |-> "newvar", n |-> n]
OtherStmt(e) == [k |-> "other", e |-> e]

\* What a read past the end of the statement array yields (never a statement).
OutOfBody == [k |-> "outofbody"]

----------------------------------------------------------------------------
(* The expression evaluator, on the node kinds a body of the model holds.  *)

\* An interpreter_state with a lambda: lam->nargs formals, the last one
\* variadic when lam->isva, called with the actuals args.  The slots of the
\* lambda are its formals and NSlots variables.
Frame(nargs, isva, args) ==
    [s |-> "frame",
     lam |-> [nargs |-> nargs, isva |-> isva, nslots |-> nargs + NSlots],
     args |-> args]

\* The state jl_interpret_toplevel_thunk(lam) makes: no formals, no actuals.
Thunk == Frame(0, FALSE, <<>>)

\* jl_array_len(li->slotflags), of the lambda of the frame
jl_linfo_nslots == istate.lam.nslots

jl_linfo_nssavalues == NSSAValues

Ok(v) == [ok |-> TRUE, v |-> v]
Throws(x) == [ok |-> FALSE, v |-> x]

\* if (jl_is_ssavalue(e)) ...: no test for an absent entry.
eval_ssavalue(e) ==
    IF e.id >= jl_linfo_nssavalues \/ e.id < 0
    THEN Throws(ErrorException("access to invalid SSAValue"))
    ELSE Ok(locals[jl_linfo_nslots + e.id])

\* A plausible slip: the slot is returned without the test for an absent entry.
eval_slot_unchecked(e) ==
    IF e.n > jl_linfo_nslots \/ e.n < 1
    THEN Throws(ErrorException("access to invalid slot number"))
    ELSE Ok(locals[e.n - 1])

\* if (jl_is_slot(e)) ...
eval_slot(e) ==
    IF e.n > jl_linfo_nslots \/ e.n < 1
    THEN Throws(ErrorException("access to invalid slot number"))
    ELSE IF locals[e.n - 1] = NULL
         THEN Throws(UndefVarError(SlotNames[e.n]))
         ELSE Ok(locals[e.n - 1])

\* ex->head == error_sym || ex->head == jl_incomplete_sym
eval_error(e) ==
    IF Len(e.args) = 0
    THEN Throws(ErrorException("malformed error expression"))
    ELSE IF e.args[1].t = "string"
         THEN Throws(ErrorException("syntax"))
         ELSE Throws(e.args[1])

\* eval(e, s) with s a frame that has a lambda and locals.
eval(e) ==
    CASE e.k = "ssavalue" -> eval_ssavalue(e)
      [] e.k = "slot" -> eval_slot(e)
      [] e.k = "lit" -> Ok(e.v)
      [] e.k = "the_exception" -> Ok(exc)
      [] e.k = "error" -> eval_error(e)
      [] OTHER -> Throws(ErrorException("unsupported or misplaced expression"))

\* eval dereferences a null pointer: the process is killed by the fault.
SegFault == [t |-> "SIGSEGV", v |-> ""]
\* What a read through a null pointer gives when it does not fault.
Garbage == [t |-> "garbage", v |-> ""]

\* No interpreter_state: eval(e, NULL) of jl_interpret_toplevel_expr and
\* eval_body(stmts, NULL, 0, 1) of jl_toplevel_eval_body.
NoFrame == [s |-> "null", lam |-> NULL, args |-> <<>>]

\* The interpreter_state of jl_interpret_toplevel_expr_in with lam absent:
\* s.lam = NULL, s.locals = NULL.
NoLam == [s |-> "nolam", lam |-> NULL, args |-> <<>>]

\* eval of an SSA value or a slot with lam == NULL.  The first operand of the
\* range test is jl_linfo_nssavalues(lam) (jl_linfo_nslots(lam) for a slot),
\* which reads a field of lam through the null pointer: the read faults, or
\* it yields some number and the test goes on.  With that number small the
\* error is raised; otherwise `s->locals == NULL` is tested, which holds when
\* s is there (its locals are NULL) and is a second read through a null
\* pointer when s == NULL, after which anything may be returned.
eval_reference_noframe(e) ==
    {Throws(SegFault),
     Throws(ErrorException(IF e.k = "ssavalue"
                           THEN "access to invalid SSAValue"
                           ELSE "access to invalid slot number"))}
    \cup (IF istate.s = "null" THEN {Ok(Garbage)} ELSE {})

\* What eval(e, s) may give: one outcome with a frame, the outcomes of the
\* undefined behaviour without one.
eval_results(e) ==
    IF istate.s # "frame" /\ e.k \in {"ssavalue", "slot"}
    THEN eval_reference_noframe(e)
    ELSE {eval(e)}

\* jl_is_toplevel_only_expr: none of the nodes above is one.
jl_is_toplevel_only_expr(e) == e.k \in {"module", "thunk", "toplevel", "import", "using", "export"}

----------------------------------------------------------------------------
(* The body executor.                                                      *)

ns == Len(stmts)

Top == frames[Len(frames)]

\* jl_array_ptr_ref(stmts, i)
StmtAt(i) == IF i \in 0..(ns - 1) THEN stmts[i + 1] ELSE OutOfBody

CurStmt == StmtAt(Top.i)

Running == status = "running" /\ frames # <<>>

\* `if (i >= ns)` at the head of the loop.
PastEnd == Top.i >= ns

Fetch(kind) == Running /\ ~PastEnd /\ CurStmt.k = kind

NoExpr == [k |-> "none"]
NoRes == [ok |-> TRUE, v |-> NULL]
\* op: the statement kind; idx, depth: the index fetched and the activation;
\* e, r: the expression handed to eval and what eval gave; raised: the
\* exception the step threw, NULL when it threw none.
Event(op, e, r, x) ==
    [op |-> op, idx |-> Top.i, depth |-> Len(frames), e |-> e, r |-> r, raised |-> x]

\* `i = x; continue;` or `i++` in the running activation.
SetI(x) == [frames EXCEPT ![Len(frames)] = [i |-> ToSizeT(x)]]

\* A plausible slip: the handler resumes at index `label`, not `label - 1`.
enter_catch_off_by_one(k) ==
    [j \in 1..k |-> IF j = k
                    THEN [i |-> ToSizeT(StmtAt(frames[k].i).label)]
                    ELSE frames[j]]

\* The JL_CATCH side of `enter` in activation k: i = label - 1; continue.
enter_catch(k) ==
    [j \in 1..k |-> IF j = k
                    THEN [i |-> ToSizeT(StmtAt(frames[k].i).label - 1)]
                    ELSE frames[j]]

\* The handler a throw transfers to: the innermost registered one.
jl_throw_target == eh[Len(eh)]

\* A plausible slip: the transfer unregisters the handler that catches and
\* the one enclosing it.
jl_throw_pops_two(x) ==
    /\ exc' = x
    /\ IF eh = <<>>
       THEN status' = "fatal" /\ frames' = <<>> /\ eh' = eh
       ELSE /\ eh' = SubSeq(eh, 1, Len(eh) - 2)
            /\ IF jl_throw_target.frame = 0
               THEN status' = "thrown" /\ frames' = <<>>
               ELSE status' = "running" /\ frames' = enter_catch(jl_throw_target.frame)

\* jl_throw(x) in the running activation: the transfer tears the handler down.
jl_throw(x) ==
    /\ exc' = x
    /\ IF eh = <<>>
       THEN status' = "fatal" /\ frames' = <<>> /\ eh' = eh
       ELSE /\ eh' = SubSeq(eh, 1, Len(eh) - 1)
            /\ IF jl_throw_target.frame = 0
               THEN status' = "thrown" /\ frames' = <<>>
               ELSE status' = "running" /\ frames' = enter_catch(jl_throw_target.frame)

\* The step ends by raising x; a fault ends the process.
Raise(x) ==
    IF x = SegFault
    THEN /\ status' = "crashed" /\ frames' = <<>>
         /\ UNCHANGED <<eh, exc>>
    ELSE jl_throw(x)

\* The step goes on to statement x without a throw.
Proceed(x) ==
    /\ frames' = SetI(x)
    /\ UNCHANGED <<eh, exc, status>>

ErrBodyEnd == ErrorException("body expression must terminate in return")

\* A plausible slip: a body that falls off its end yields nothing, like a block.
BodyEnd_returns_nothing ==
    /\ status = "running" /\ frames # <<>> /\ Top.i >= ns
    /\ status' = "returned" /\ result' = jl_nothing /\ frames' = <<>>
    /\ ev' = Event("bodyend", NoExpr, NoRes, NULL)
    /\ UNCHANGED <<istate, stmts, locals, eh, exc, toplevel, jl_lineno>>
    /\ UNCHANGED nonBodyVars

\* if (i >= ns) jl_error(...)
BodyEnd ==
    /\ Running /\ PastEnd
    /\ jl_throw(ErrBodyEnd)
    /\ ev' = Event("bodyend", NoExpr, NoRes, ErrBodyEnd)
    /\ UNCHANGED <<istate, stmts, locals, result, toplevel, jl_lineno>>
    /\ UNCHANGED nonBodyVars

\* jl_is_gotonode(stmt)
StmtGoto ==
    /\ Fetch("goto")
    /\ Proceed(CurStmt.label - 1)
    /\ ev' = Event("goto", NoExpr, NoRes, NULL)
    /\ UNCHANGED <<istate, stmts, locals, result, toplevel, jl_lineno>>
    /\ UNCHANGED nonBodyVars

\* A plausible slip: a return unregisters the handlers the body still has.
StmtReturn_pops_handlers ==
    /\ Fetch("return")
    /\ \E r \in eval_results(CurStmt.e) :
       /\ ev' = Event("return", CurStmt.e, r, IF r.ok THEN NULL ELSE r.v)
       /\ IF r.ok
          THEN /\ status' = "returned" /\ result' = r.v /\ frames' = <<>>
               /\ eh' = SelectSeq(eh, LAMBDA h : h.frame = 0)
               /\ UNCHANGED exc
          ELSE Raise(r.v) /\ UNCHANGED result
    /\ UNCHANGED <<istate, stmts, locals, toplevel, jl_lineno>>
    /\ UNCHANGED nonBodyVars

\* head == return_sym
StmtReturn ==
    /\ Fetch("return")
    /\ \E r \in eval_results(CurStmt.e) :
       /\ ev' = Event("return", CurStmt.e, r, IF r.ok THEN NULL ELSE r.v)
       /\ IF r.ok
          THEN /\ status' = "returned" /\ result' = r.v /\ frames' = <<>>
               /\ UNCHANGED <<eh, exc>>
          ELSE Raise(r.v) /\ UNCHANGED result
    /\ UNCHANGED <<istate, stmts, locals, toplevel, jl_lineno>>
    /\ UNCHANGED nonBodyVars

\* A store into the locals without a frame: `s->lam` (SSA destination) or
\* `s->locals[n-1]` (slot destination, new-var node) goes through a null
\* pointer.  It faults, or writes to memory that is not the locals array;
\* for an SSA destination the range test on the number read may also fail.
ErrGenSym == ErrorException("assignment to invalid GenSym location")

StoreNoFrame(d) ==
    {SegFault, NULL} \cup (IF d.k = "ssavalue" THEN {ErrGenSym} ELSE {})

\* A plausible slip: the SSA temps are stored from entry 0, over the slots.
StmtAssign_ssa_from_zero ==
    /\ Fetch("assign")
    /\ \E r \in eval_results(CurStmt.e) :
       LET d == CurStmt.dest
           xs == IF ~r.ok THEN {r.v}
                 ELSE IF istate.s # "frame"
                      THEN StoreNoFrame(d)
                      ELSE IF d.k = "ssavalue"
                                /\ (d.id >= jl_linfo_nssavalues \/ d.id < 0)
                           THEN {ErrGenSym}
                           ELSE {NULL}
       IN
       \E x \in xs :
           /\ ev' = Event("assign", CurStmt.e, r, x)
           /\ IF x # NULL
              THEN Raise(x) /\ UNCHANGED locals
              ELSE /\ locals' = IF istate.s # "frame" THEN locals
                                ELSE IF d.k = "ssavalue"
                                THEN [locals EXCEPT ![d.id] = r.v]
                                ELSE [locals EXCEPT ![d.n - 1] = r.v]
                   /\ Proceed(Top.i + 1)
    /\ UNCHANGED <<istate, stmts, result, toplevel, jl_lineno>>
    /\ UNCHANGED nonBodyVars

\* head == assign_sym, the destination an SSA value or a slot
StmtAssign ==
    /\ Fetch("assign")
    /\ \E r \in eval_results(CurStmt.e) :
       LET d == CurStmt.dest
           xs == IF ~r.ok THEN {r.v}
                 ELSE IF istate.s # "frame"
                      THEN StoreNoFrame(d)
                      ELSE IF d.k = "ssavalue"
                                /\ (d.id >= jl_linfo_nssavalues \/ d.id < 0)
                           THEN {ErrGenSym}
                           ELSE {NULL}
       IN
       \E x \in xs :
           /\ ev' = Event("assign", CurStmt.e, r, x)
           /\ IF x # NULL
              THEN Raise(x) /\ UNCHANGED locals
              ELSE /\ locals' = IF istate.s # "frame" THEN locals
                                ELSE IF d.k = "ssavalue"
                                THEN [locals EXCEPT ![jl_linfo_nslots + d.id] = r.v]
                                ELSE [locals EXCEPT ![d.n - 1] = r.v]
                   /\ Proceed(Top.i + 1)
    /\ UNCHANGED <<istate, stmts, result, toplevel, jl_lineno>>
    /\ UNCHANGED nonBodyVars

\* A plausible slip: the branch is taken when the condition is true.
StmtGotoIfNot_inverted ==
    /\ Fetch("goto_ifnot")
    /\ \E r \in eval_results(CurStmt.e) :
       LET x == IF ~r.ok THEN r.v
                ELSE IF r.v # jl_false /\ r.v # jl_true THEN TypeErrorBool ELSE NULL
       IN
       /\ ev' = Event("goto_ifnot", CurStmt.e, r, x)
       /\ IF x # NULL THEN Raise(x)
          ELSE IF r.v = jl_true THEN Proceed(CurStmt.label - 1)
          ELSE Proceed(Top.i + 1)
    /\ UNCHANGED <<istate, stmts, locals, result, toplevel, jl_lineno>>
    /\ UNCHANGED nonBodyVars

\* head == goto_ifnot_sym
StmtGotoIfNot ==
    /\ Fetch("goto_ifnot")
    /\ \E r \in eval_results(CurStmt.e) :
       LET x == IF ~r.ok THEN r.v
                ELSE IF r.v # jl_false /\ r.v # jl_true THEN TypeErrorBool ELSE NULL
       IN
       /\ ev' = Event("goto_ifnot", CurStmt.e, r, x)
       /\ IF x # NULL THEN Raise(x)
          ELSE IF r.v = jl_false THEN Proceed(CurStmt.label - 1)
          ELSE Proceed(Top.i + 1)
    /\ UNCHANGED <<istate, stmts, locals, result, toplevel, jl_lineno>>
    /\ UNCHANGED nonBodyVars

\* head == line_sym
StmtLine ==
    /\ Fetch("line")
    /\ jl_lineno' = IF toplevel THEN CurStmt.line ELSE jl_lineno
    /\ Proceed(Top.i + 1)
    /\ ev' = Event("line", NoExpr, NoRes, NULL)
    /\ UNCHANGED <<istate, stmts, locals, result, toplevel>>
    /\ UNCHANGED nonBodyVars

\* A plausible slip: every handler of the body resumes the activation of
\* the outermost enter.
StmtEnter_outermost ==
    /\ Fetch("enter")
    /\ Len(frames) < MaxFrames
    /\ eh' = Append(eh, [frame |-> 1, label |-> CurStmt.label, prev |-> Len(eh)])
    /\ frames' = Append(frames, [i |-> Top.i + 1])
    /\ ev' = Event("enter", NoExpr, NoRes, NULL)
    /\ UNCHANGED <<istate, stmts, locals, exc, status, result, toplevel, jl_lineno>>
    /\ UNCHANGED nonBodyVars

\* head == enter_sym, the setjmp side: jl_enter_handler(&__eh), then
\* return eval_body(stmts, s, i+1, toplevel).
StmtEnter ==
    /\ Fetch("enter")
    /\ Len(frames) < MaxFrames
    /\ eh' = Append(eh, [frame |-> Len(frames), label |-> CurStmt.label,
                        prev |-> Len(eh)])
    /\ frames' = Append(frames, [i |-> Top.i + 1])
    /\ ev' = Event("enter", NoExpr, NoRes, NULL)
    /\ UNCHANGED <<istate, stmts, locals, exc, status, result, toplevel, jl_lineno>>
    /\ UNCHANGED nonBodyVars

\* A plausible slip: `leave` moves on and leaves the handlers registered.
StmtLeave_keeps_handlers ==
    /\ Fetch("leave")
    /\ CurStmt.n <= Len(eh)
    /\ eh' = eh
    /\ frames' = SetI(Top.i + 1)
    /\ ev' = Event("leave", NoExpr, NoRes, NULL)
    /\ UNCHANGED <<istate, stmts, locals, exc, status, result, toplevel, jl_lineno>>
    /\ UNCHANGED nonBodyVars

\* head == leave_sym: jl_pop_handler(hand_n_leave)
StmtLeave ==
    /\ Fetch("leave")
    /\ CurStmt.n <= Len(eh)
    /\ eh' = SubSeq(eh, 1, Len(eh) - CurStmt.n)
    /\ frames' = SetI(Top.i + 1)
    /\ ev' = Event("leave", NoExpr, NoRes, NULL)
    /\ UNCHANGED <<istate, stmts, locals, exc, status, result, toplevel, jl_lineno>>
    /\ UNCHANGED nonBodyVars

\* A plausible slip: a new-var node is skipped like a line node.
StmtNewVar_skipped ==
    /\ Fetch("newvar")
    /\ ev' = Event("newvar", NoExpr, NoRes, NULL)
    /\ Proceed(Top.i + 1)
    /\ UNCHANGED <<istate, stmts, locals, result, toplevel, jl_lineno>>
    /\ UNCHANGED nonBodyVars

\* jl_is_newvarnode(stmt)
StmtNewVar ==
    /\ Fetch("newvar")
    /\ \E x \in (IF istate.s # "frame" THEN StoreNoFrame(CurStmt) ELSE {NULL}) :
        /\ ev' = Event("newvar", NoExpr, NoRes, x)
        /\ IF x # NULL
           THEN Raise(x) /\ UNCHANGED locals
           ELSE /\ locals' = IF istate.s # "frame" THEN locals
                             ELSE [locals EXCEPT ![CurStmt.n - 1] = NULL]
                /\ Proceed(Top.i + 1)
    /\ UNCHANGED <<istate, stmts, result, toplevel, jl_lineno>>
    /\ UNCHANGED nonBodyVars

\* any other statement: eval(stmt, s) for its side effect
StmtOther ==
    /\ Fetch("other")
    /\ \E r \in eval_results(CurStmt.e) :
       /\ ev' = Event("other", CurStmt.e, r, IF r.ok THEN NULL ELSE r.v)
       /\ IF r.ok THEN Proceed(Top.i + 1) ELSE Raise(r.v)
    /\ UNCHANGED <<istate, stmts, locals, result, toplevel, jl_lineno>>
    /\ UNCHANGED nonBodyVars

NoEvent == [op |-> "init", idx |-> 0, depth |-> 1, e |-> NoExpr, r |-> NoRes, raised |-> NULL]

\* No call expression is being evaluated.
CallIdle ==
    /\ cstack = <<>>
    /\ cstatus = "idle"
    /\ cresult = NULL
    /\ clog = <<>>

Modules == {"Main", "Base", "M"}

NoTopEvent ==
    [op |-> "init", dt |-> NULL, reset |-> FALSE, assigned |-> FALSE,
     raised |-> FALSE]

\* No top-level form is being evaluated, in a process that has defined nothing.
NoHist == [phase |-> "none", form |-> NULL]

TopIdle ==
    /\ jl_current_module = "Main"
    /\ task_module = "Main"
    /\ inside_typedef = 0
    /\ bindings = [m \in Modules |-> [value |-> NULL, constp |-> FALSE]]
    /\ tstack = <<>>
    /\ tstatus = "idle"
    /\ tev = NoTopEvent
    /\ hist = NoHist

----------------------------------------------------------------------------
(* The bodies explored.                                                    *)

UserError == [t |-> "UserError", v |-> "boom"]

\* Statements of bodies that exercise control flow and handlers.
ControlStmts ==
    { GotoNode(0), GotoNode(2),
      EnterStmt(0), EnterStmt(3), EnterStmt(4),
      LeaveStmt(1), LeaveStmt(2),
      OtherStmt(ErrorExpr(<<UserError>>)),
      ReturnStmt(TheException), ReturnStmt(SlotRef(1)),
      AssignStmt(SlotRef(1), Lit(BoxLong("7"))) }

\* Statements of bodies that exercise the locals and the references to them.
LocalsStmts ==
    { AssignStmt(SlotRef(1), Lit(BoxLong("7"))),
      AssignStmt(SSARef(0), SlotRef(1)),
      NewVarNode(1),
      ReturnStmt(SlotRef(1)), ReturnStmt(SlotRef(0)), ReturnStmt(SSARef(0)),
      ReturnStmt(SSARef(1)),
      OtherStmt(SlotRef(2)), OtherStmt(SSARef(-1)),
      GotoIfNot(SlotRef(1), 3),
      GotoNode(2),
      LineStmt(5) }

\* Statements of bodies that exercise the conditional branch.
BranchStmts ==
    { AssignStmt(SlotRef(1), Lit(jl_false)),
      AssignStmt(SlotRef(1), Lit(jl_true)),
      AssignStmt(SlotRef(1), Lit(BoxLong("7"))),
      GotoIfNot(SlotRef(1), 1), GotoIfNot(SlotRef(1), 4),
      GotoIfNot(Lit(jl_false), 0),
      EnterStmt(4),
      ReturnStmt(SlotRef(1)) }

BodiesOver(S) == UNION { [1..n -> S] : n \in 1..MaxBodyLen }

Bodies ==
    BodiesOver(ControlStmts) \cup BodiesOver(LocalsStmts) \cup BodiesOver(BranchStmts)

\* jl_f_tuple(NULL, &args[i], nargs - i): the actuals from position i on.
jl_f_tuple(args, i) == [t |-> "tuple", v |-> SubSeq(args, i + 1, Len(args))]

\* A plausible slip: the variadic formal is bound like any other.
jl_interpret_call_no_tuple(formals, isva, args, code) ==
    /\ istate = Frame(formals, isva, args)
    /\ stmts = code
    /\ locals = [j \in 0..(jl_linfo_nslots + jl_linfo_nssavalues - 1) |->
                   IF j < formals /\ j < Len(args) THEN args[j + 1] ELSE NULL]
    /\ frames = <<[i |-> 0]>>
    /\ toplevel = (formals = 0)

\* jl_interpret_call(lam, args, nargs, sparam_vals) up to the call of
\* eval_body, for a lambda of `formals` arguments and the body `code`:
\* JL_GC_PUSHARGS gives the locals, all absent, the loop binds the formals.
jl_interpret_call(formals, isva, args, code) ==
    /\ istate = Frame(formals, isva, args)
    /\ stmts = code
    /\ locals = [j \in 0..(jl_linfo_nslots + jl_linfo_nssavalues - 1) |->
                   IF j >= formals THEN NULL
                   ELSE IF isva /\ j = formals - 1 THEN jl_f_tuple(args, j)
                   ELSE args[j + 1]]
    /\ frames = <<[i |-> 0]>>
    /\ toplevel = (formals = 0)

\* jl_interpret_toplevel_thunk(lam): jl_interpret_call(lam, NULL, 0, NULL).
jl_interpret_toplevel_thunk(code) == jl_interpret_call(0, FALSE, <<>>, code)

InitBody ==
    /\ \E code \in Bodies : jl_interpret_toplevel_thunk(code)
    /\ eh = [j \in 1..CallerHandlers |-> [frame |-> 0, label |-> 0, prev |-> j - 1]]
    /\ exc = jl_nothing
    /\ status = "running"
    /\ result = NULL
    /\ jl_lineno = 0
    /\ ev = NoEvent
    /\ CallIdle
    /\ TopIdle

NextBody ==
    \/ BodyEnd
    \/ StmtGoto
    \/ StmtReturn
    \/ StmtAssign
    \/ StmtGotoIfNot
    \/ StmtLine
    \/ StmtEnter
    \/ StmtLeave
    \/ StmtNewVar
    \/ StmtOther

SpecBody == InitBody /\ [][NextBody]_vars

\* Statements of bodies run without a frame.
NoFrameStmts ==
    { ReturnStmt(SSARef(0)), ReturnStmt(SlotRef(1)),
      AssignStmt(SlotRef(1), Lit(jl_true)), AssignStmt(SSARef(0), Lit(jl_true)),
      GotoIfNot(SlotRef(1), 1),
      OtherStmt(SSARef(0)),
      NewVarNode(1),
      EnterStmt(3), LeaveStmt(1), GotoNode(3), LineStmt(5) }

\* jl_toplevel_eval_body(stmts): eval_body(stmts, NULL, 0, 1).
jl_toplevel_eval_body(code) ==
    /\ istate = NoFrame
    /\ stmts = code
    /\ locals = <<>>
    /\ frames = <<[i |-> 0]>>
    /\ toplevel = TRUE

\* jl_interpret_toplevel_expr_in(m, e, NULL, 0) at its `eval(e, &s)`, whose
\* value it returns: the one expression is run as the body (return e).
jl_interpret_toplevel_expr_in_nolam(e) ==
    /\ istate = NoLam
    /\ stmts = <<ReturnStmt(e)>>
    /\ locals = <<>>
    /\ frames = <<[i |-> 0]>>
    /\ toplevel = TRUE

InitNoFrame ==
    /\ \/ \E code \in BodiesOver(NoFrameStmts) : jl_toplevel_eval_body(code)
       \/ \E e \in {SSARef(0), SlotRef(1), Lit(jl_true)} :
              jl_interpret_toplevel_expr_in_nolam(e)
    /\ eh = [j \in 1..CallerHandlers |-> [frame |-> 0, label |-> 0, prev |-> j - 1]]
    /\ exc = jl_nothing
    /\ status = "running"
    /\ result = NULL
    /\ jl_lineno = 0
    /\ ev = NoEvent
    /\ CallIdle
    /\ TopIdle

SpecNoFrame == InitNoFrame /\ [][NextBody]_vars

----------------------------------------------------------------------------
(* do_call: the evaluation of a `call` expression.  An argument that is    *)
(* itself a `call` is evaluated by a nested activation of do_call (eval    *)
(* recurses); every other argument by eval in one step.  SpecCall starts   *)
(* do_call on a call expression in a frame whose slot 1 is set or absent.  *)

\* Longest argument list explored.
MaxArgs == 3

CallExpr(a) == [k |-> "call", args |-> a]

FnValue == [t |-> "function", v |-> "f"]
MethodError == [t |-> "MethodError", v |-> "f"]
CallValue == [t |-> "long", v |-> "42"]

CTop == cstack[Len(cstack)]

CallRunning == cstatus = "running" /\ cstack # <<>>

\* One entry of clog: activation `act` (the path of argument indices that
\* leads to it) began evaluating its argument i, or dispatched.
ArgEvent(act, i) == [act |-> act, op |-> "arg", i |-> i]
ApplyEvent(act) == [act |-> act, op |-> "apply", i |-> 0]

\* A throw out of do_call: nothing in do_call or eval catches it.
CallThrow(x) ==
    /\ exc' = x
    /\ cstatus' = "thrown"
    /\ cstack' = <<>>
    /\ UNCHANGED cresult

\* do_call hands value v back to its caller: the enclosing do_call stores it
\* in argv[i] and goes on, the outermost one is done.
CallReturn(v) ==
    IF Len(cstack) = 1
    THEN cstatus' = "returned" /\ cresult' = v /\ cstack' = <<>>
    ELSE /\ cstack' = [j \in 1..(Len(cstack) - 1) |->
                         IF j = Len(cstack) - 1
                         THEN [cstack[j] EXCEPT !.argv = Append(@, v), !.i = @ + 1]
                         ELSE cstack[j]]
         /\ UNCHANGED <<cstatus, cresult>>

\* A plausible slip: the arguments are evaluated right to left.
DoCallArg_right_to_left ==
    /\ CallRunning
    /\ CTop.i < Len(CTop.args)
    /\ CTop.args[Len(CTop.args) - CTop.i].k # "call"
    /\ LET k == Len(CTop.args) - 1 - CTop.i
           r == eval(CTop.args[k + 1])
       IN
       /\ clog' = Append(clog, ArgEvent(CTop.act, k))
       /\ IF r.ok
          THEN /\ cstack' = [cstack EXCEPT ![Len(cstack)] =
                                [@ EXCEPT !.argv = Append(@, r.v), !.i = @ + 1]]
               /\ UNCHANGED <<exc, cstatus, cresult>>
          ELSE CallThrow(r.v)
    /\ UNCHANGED <<istate, stmts, frames, eh, locals, status, result, toplevel, jl_lineno, ev>>
    /\ UNCHANGED topVars

\* for(i=0; i < nargs; i++) argv[i] = eval(args[i], s);  -- args[i] no call
DoCallArg ==
    /\ CallRunning
    /\ CTop.i < Len(CTop.args)
    /\ CTop.args[CTop.i + 1].k # "call"
    /\ LET r == eval(CTop.args[CTop.i + 1]) IN
       /\ clog' = Append(clog, ArgEvent(CTop.act, CTop.i))
       /\ IF r.ok
          THEN /\ cstack' = [cstack EXCEPT ![Len(cstack)] =
                                [@ EXCEPT !.argv = Append(@, r.v), !.i = @ + 1]]
               /\ UNCHANGED <<exc, cstatus, cresult>>
          ELSE CallThrow(r.v)
    /\ UNCHANGED <<istate, stmts, frames, eh, locals, status, result, toplevel, jl_lineno, ev>>
    /\ UNCHANGED topVars

\* argv[i] = eval(args[i], s) with args[i] a call: eval enters do_call again.
DoCallArgNested ==
    /\ CallRunning
    /\ CTop.i < Len(CTop.args)
    /\ CTop.args[CTop.i + 1].k = "call"
    /\ clog' = Append(clog, ArgEvent(CTop.act, CTop.i))
    /\ cstack' = Append(cstack, [args |-> CTop.args[CTop.i + 1].args, i |-> 0,
                                 argv |-> <<>>, act |-> Append(CTop.act, CTop.i)])
    /\ UNCHANGED <<cstatus, cresult>>
    /\ UNCHANGED <<bodyVars, topVars>>

\* jl_apply_generic(argv, nargs): the dispatch returns a value or throws.
DoCallApply ==
    /\ CallRunning
    /\ CTop.i >= Len(CTop.args)
    /\ clog' = Append(clog, ApplyEvent(CTop.act))
    /\ \E outcome \in {Ok(CallValue), Throws(MethodError)} :
         IF outcome.ok
         THEN CallReturn(outcome.v) /\ UNCHANGED exc
         ELSE CallThrow(outcome.v)
    /\ UNCHANGED <<istate, stmts, frames, eh, locals, status, result, toplevel, jl_lineno, ev>>
    /\ UNCHANGED topVars

\* The arguments of the call expressions explored.
AtomArgs == { Lit(FnValue), SlotRef(1), ErrorExpr(<<UserError>>) }

InnerCalls == { CallExpr(<<Lit(FnValue)>>), CallExpr(<<Lit(FnValue), SlotRef(1)>>) }

ArgExprs == AtomArgs \cup InnerCalls

CallExprs == { CallExpr(a) : a \in UNION { [1..n -> ArgExprs] : n \in 0..MaxArgs } }

InitCall ==
    /\ \E e \in CallExprs :
         cstack = <<[args |-> e.args, i |-> 0, argv |-> <<>>, act |-> <<>>]>>
    /\ cstatus = "running"
    /\ cresult = NULL
    /\ clog = <<>>
    /\ istate = Thunk
    /\ stmts = <<>>
    /\ frames = <<>>
    /\ eh = <<>>
    /\ \E v \in {NULL, BoxLong("7")} :
         locals = [j \in 0..(jl_linfo_nslots + jl_linfo_nssavalues - 1) |->
                     IF j = 0 THEN v ELSE NULL]
    /\ exc = jl_nothing
    /\ status = "idle"
    /\ result = NULL
    /\ toplevel = FALSE
    /\ jl_lineno = 0
    /\ ev = NoEvent
    /\ TopIdle

NextCall ==
    \/ DoCallArg
    \/ DoCallArgNested
    \/ DoCallApply

SpecCall == InitCall /\ [][NextCall]_vars

----------------------------------------------------------------------------
(* jl_interpret_call on a lambda with formals, called with actuals.        *)

\* The actuals of a call with n arguments.
Actuals(n) == [p \in 1..n |-> BoxLong(IF p = 1 THEN "1" ELSE IF p = 2 THEN "2" ELSE "3")]

\* The calls explored: the callee takes as many actuals as it has formals,
\* and any number from its last formal on when that one is variadic.
Calls ==
    { c \in [formals : 0..MaxFormals, isva : BOOLEAN, n : 0..MaxArgs] :
        IF c.isva THEN c.formals >= 1 /\ c.n >= c.formals - 1
        ELSE c.n = c.formals }

\* Statements of the bodies of called lambdas.
CalleeStmts ==
    { ReturnStmt(SlotRef(1)), ReturnStmt(SlotRef(2)), ReturnStmt(SlotRef(3)),
      ReturnStmt(SSARef(0)),
      AssignStmt(SlotRef(2), SlotRef(1)),
      GotoIfNot(SlotRef(1), 2),
      OtherStmt(SlotRef(2)),
      NewVarNode(1),
      EnterStmt(2), LeaveStmt(1), GotoNode(2), LineStmt(5) }

\* Longest body of a called lambda explored.
MaxCalleeLen == 2

CalleeBodies == UNION { [1..n -> CalleeStmts] : n \in 1..MaxCalleeLen }

InitInterp ==
    /\ \E c \in Calls, code \in CalleeBodies :
           jl_interpret_call(c.formals, c.isva, Actuals(c.n), code)
    /\ eh = [j \in 1..CallerHandlers |-> [frame |-> 0, label |-> 0, prev |-> j - 1]]
    /\ exc = jl_nothing
    /\ status = "running"
    /\ result = NULL
    /\ jl_lineno = 0
    /\ ev = NoEvent
    /\ CallIdle
    /\ TopIdle

SpecInterp == InitInterp /\ [][NextBody]_vars

----------------------------------------------------------------------------
(* Top-level forms: jl_interpret_toplevel_expr, jl_interpret_toplevel_     *)
(* expr_in and the three type-definition forms of eval.  The driver        *)
(* evaluates one top-level form after another.  The evaluation of a        *)
(* sub-expression of a form is opaque: it yields a value, throws, or runs  *)
(* the interpreter again on another form (eval is re-entrant through the   *)
(* calls it makes), which `tstack` records.                                *)

\* Deepest nesting of form evaluations explored.
MaxDepth == 2

TypeName == "Foo"

\* A value that is no datatype.
NonTypeValue == BoxLong("5")

jl_emptysvec == <<>>

jl_is_datatype(v) == v.t = "datatype"

\* Types by name, as jl_egal compares datatypes: name and parameters.
AnyType == "Any"
Int64Type == "Int64"
NotAType == "5"

\* jl_is_type(elt) || jl_is_typevar(elt)
IsTypeOrTypeVar(elt) == elt # NotAType

\* A datatype object.  uid is its identity; the other fields are those
\* equiv_type reads.
DataType(uid, name, para, names, abstract, mutabl, ninit, size) ==
    [t |-> "datatype", uid |-> uid, name |-> name, parameters |-> para,
     names |-> names, types |-> <<>>, super |-> "",
     abstract |-> abstract, mutabl |-> mutabl, ninitialized |-> ninit,
     size |-> size]

\* jl_new_abstracttype(name, NULL, para)
jl_new_abstracttype(uid, name, para) ==
    DataType(uid, name, para, <<>>, TRUE, FALSE, 0, 0)

\* jl_new_bitstype(name, NULL, para, nb)
jl_new_bitstype(uid, name, para, nb) ==
    DataType(uid, name, para, <<>>, FALSE, FALSE, 0, nb \div 8)

\* jl_new_datatype(name, NULL, para, fnames, NULL, 0, mutabl, ninit)
jl_new_datatype(uid, name, para, fnames, mutabl, ninit) ==
    DataType(uid, name, para, fnames, FALSE, mutabl, ninit, 0)

\* jl_compute_field_offsets(dt), when it does not throw: a word per field.
jl_compute_field_offsets(dt) == [dt EXCEPT !.size = 8 * Len(dt.types)]

\* equiv_type(dta, dtb): dta the new type, dtb the value the binding held
equiv_type(dta, dtb) ==
    /\ dta.t = dtb.t
    /\ dta.parameters = jl_emptysvec
    /\ dta.name = dtb.name
    /\ dta.types = dtb.types
    /\ dta.abstract = dtb.abstract
    /\ dta.mutabl = dtb.mutabl
    /\ dta.size = dtb.size
    /\ dta.ninitialized = dtb.ninitialized
    /\ dta.super = dtb.super
    /\ dta.names = dtb.names
    /\ dta.parameters = dtb.parameters

\* A plausible slip: the check lets every binding through.
check_can_assign_type_never(b) == FALSE

\* check_can_assign_type(b): TRUE when it raises.
check_can_assign_type(b) ==
    b.constp /\ b.value # NULL /\ ~jl_is_datatype(b.value)

ErrRedefConst == ErrorException("invalid redefinition of constant Foo")

\* jl_set_datatype_super(tt, super): TRUE when it raises.  Of the supertypes
\* of the model only Any is an abstract datatype.
jl_set_datatype_super_fails(tt, super) == super # AnyType \/ tt.name = super

ErrSubtyping == ErrorException("invalid subtyping in definition of Foo")

\* jl_checked_assignment(b, rhs): TRUE when it raises (a constant that holds
\* another value).
jl_checked_assignment_fails(b, rhs) ==
    b.constp /\ b.value # NULL /\ b.value # rhs

ErrNestedTypedef(head) ==
    ErrorException(
      CASE head = "abstract_type" ->
             "cannot eval a new abstract type definition while defining another type"
        [] head = "bits_type" ->
             "cannot eval a new bits type definition while defining another type"
        [] OTHER ->
             "cannot eval a new data type definition while defining another type")

ErrBitsDecl == ErrorException("invalid declaration of bits type Foo")
ErrBitsNumber == ErrorException("invalid number of bits in type Foo")
ErrFieldType == [t |-> "TypeError", v |-> "type definition: expected Type"]
EvalError == [t |-> "UserError", v |-> "thrown by a sub-expression"]
OffsetsError == [t |-> "OverflowError", v |-> "jl_compute_field_offsets"]
ReinstError == [t |-> "UserError", v |-> "jl_reinstantiate_inner_types"]

TTop == tstack[Len(tstack)]

\* Identities of the datatype objects reachable from a binding or from a
\* local of a type form in progress.
LiveObjects ==
    {bindings[m].value.uid : m \in {n \in Modules : jl_is_datatype(bindings[n].value)}}
    \cup {tstack[i].dt.uid :
            i \in {j \in 1..Len(tstack) :
                     tstack[j].kind = "typedef" /\ jl_is_datatype(tstack[j].dt)}}
    \cup {tstack[i].temp.uid :
            i \in {j \in 1..Len(tstack) :
                     tstack[j].kind = "typedef" /\ jl_is_datatype(tstack[j].temp)}}

\* The identity of a newly allocated object: distinct from every live one
\* (the allocator may reuse the place of an unreachable object).
NewObject ==
    CHOOSE u \in 1..(Cardinality(LiveObjects) + 1) :
      /\ u \notin LiveObjects
      /\ \A w \in 1..(u - 1) : w \in LiveObjects

\* The evaluation of a sub-expression is under way in the innermost
\* activation: eval(e, &s) of expr_in, or eval(args[k], s) of a type form.
AtEvalPoint ==
    /\ tstatus = "running" /\ tstack # <<>>
    /\ \/ TTop.kind = "expr_in"
       \/ TTop.kind = "typedef"

\* The interpreter is entered: by the driver for the next top-level form, or
\* from the evaluation of a sub-expression.
MayEnter ==
    \/ tstack = <<>> /\ tstatus = "idle"
    \/ AtEvalPoint /\ Len(tstack) < MaxDepth

\* What the last step did: the datatype it had in hand, whether it called
\* jl_reset_instantiate_inner_types, whether it called jl_checked_assignment,
\* and whether it ended by throwing.
TdEvent(op, dt, reset, assigned, raised) ==
    [op |-> op, dt |-> dt, reset |-> reset, assigned |-> assigned,
     raised |-> raised]

TopEvent(op, raised) == TdEvent(op, NULL, FALSE, FALSE, raised)

\* The innermost activation ends by returning a value to its caller.
PopReturn ==
    /\ tstack' = SubSeq(tstack, 1, Len(tstack) - 1)
    /\ tstatus' = IF Len(tstack) = 1 THEN "done" ELSE "running"

\* The innermost activation ends by throwing x to its caller.
PopThrow(x) ==
    /\ tstack' = SubSeq(tstack, 1, Len(tstack) - 1)
    /\ tstatus' = IF Len(tstack) = 1 THEN "failed" ELSE "unwinding"
    /\ exc' = x

\* ---- jl_interpret_toplevel_expr_in ----

\* A plausible slip: the task's module is restored from the process cell's copy.
ExprInRestore_swapped(a) ==
    /\ jl_current_module' = a.last_m
    /\ task_module' = a.last_m

\* jl_current_module = last_m; jl_current_task->current_module = task_last_m;
ExprInRestore(a) ==
    /\ jl_current_module' = a.last_m
    /\ task_module' = a.task_last_m

\* The call up to eval(e, &s): the cells are saved, then both set to m.
BeginExprIn ==
    /\ MayEnter
    /\ \E m \in Modules :
         /\ tstack' = Append(tstack,
              [kind |-> "expr_in", m |-> m,
               last_m |-> jl_current_module, task_last_m |-> task_module,
               before |-> <<jl_current_module, task_module>>])
         /\ jl_current_module' = m
         /\ task_module' = m
         /\ tev' = TopEvent("expr_in_begin", FALSE)
    /\ tstatus' = "running"
    /\ UNCHANGED <<inside_typedef, bindings, hist>>
    /\ UNCHANGED <<bodyVars, callVars>>

\* eval(e, &s) returned: the cells are restored and v is returned.
ExprInReturn ==
    /\ AtEvalPoint /\ TTop.kind = "expr_in"
    /\ ExprInRestore(TTop)
    /\ PopReturn
    /\ tev' = TopEvent("expr_in_return", FALSE)
    /\ UNCHANGED <<inside_typedef, bindings, hist>>
    /\ UNCHANGED <<bodyVars, callVars>>

\* eval(e, &s) threw, by itself or out of an evaluation it had entered:
\* JL_CATCH restores the cells and rethrows.
ExprInCatch ==
    /\ tstack # <<>> /\ TTop.kind = "expr_in"
    /\ \/ tstatus = "running"
       \/ tstatus = "unwinding"
    /\ ExprInRestore(TTop)
    /\ PopThrow(IF tstatus = "unwinding" THEN exc ELSE EvalError)
    /\ tev' = TopEvent("expr_in_catch", TRUE)
    /\ UNCHANGED <<inside_typedef, bindings, hist>>
    /\ UNCHANGED <<bodyVarsButExc, callVars>>

\* The driver is done with a top-level form and goes on to the next:
\* inside_typedef is clear between top-level forms.
DriverNextForm ==
    /\ tstack = <<>> /\ tstatus \in {"done", "failed"}
    /\ inside_typedef' = 0
    /\ tstatus' = "idle"
    /\ tev' = TopEvent("driver_next", FALSE)
    /\ UNCHANGED <<jl_current_module, task_module, bindings, tstack, hist>>
    /\ UNCHANGED <<bodyVars, callVars>>

\* ---- eval: abstract_type, bits_type, composite_type ----

\* The record of the last top-level type form: "failed" when it ended
\* because the evaluation of its field types threw, "retrying" while the same
\* form is evaluated again as the next top-level form, "retried" when that
\* evaluation has ended.
NextHist ==
    IF tstack = <<>> /\ tstack' # <<>>
    THEN IF hist.phase = "failed" /\ tstack'[1].form = hist.form
         THEN [hist EXCEPT !.phase = "retrying"]
         ELSE NoHist
    ELSE IF Len(tstack) = 1 /\ tstack' = <<>>
    THEN IF TTop.pc = "ftypes" /\ tstatus = "running" /\ tev'.op = "td_unwind"
         THEN [phase |-> "failed", form |-> TTop.form]
         ELSE IF hist.phase = "retrying"
         THEN [hist EXCEPT !.phase = "retried"]
         ELSE NoHist
    ELSE hist

\* A type form: its head and what its argument expressions evaluate to when
\* they do not throw (parameters, number of bits, field names, supertype,
\* field types) and its literal arguments (args[5], the mutability).
TypeForm(head, para, vnb, fnames, mutabl, super, ftypes) ==
    [head |-> head, para |-> para, vnb |-> vnb, fnames |-> fnames,
     mutabl |-> mutabl, super |-> super, ftypes |-> ftypes]

AbstractForm(para, super) ==
    TypeForm("abstract_type", para, NULL, <<>>, FALSE, super, <<>>)
BitsForm(vnb, super) ==
    TypeForm("bits_type", jl_emptysvec, vnb, <<>>, FALSE, super, <<>>)
CompositeForm(para, fnames, mutabl, super, ftypes) ==
    TypeForm("composite_type", para, NULL, fnames, mutabl, super, ftypes)

\* The forms evaluated: well-formed ones, a parametric one, and one for each
\* validation that can reject a form.
TypeForms ==
    { AbstractForm(jl_emptysvec, AnyType),
      AbstractForm(jl_emptysvec, Int64Type),
      BitsForm(BoxLong("8"), AnyType),
      BitsForm(BoxLong("12"), AnyType),
      BitsForm(Sym("x"), AnyType),
      CompositeForm(jl_emptysvec, <<"a">>, FALSE, AnyType, <<Int64Type>>),
      CompositeForm(<<"T">>, <<"a">>, FALSE, AnyType, <<Int64Type>>),
      CompositeForm(jl_emptysvec, <<"a">>, FALSE, AnyType, <<NotAType>>) }

jl_unbox_long(v) == IF v.v = "8" THEN 8 ELSE 12

\* pcs of a type form at which its rollback handler (JL_TRY) is installed
InRollbackScope(a) == a.kind = "typedef" /\ a.pc \in {"super", "ftypes"}

SetTop(a) == tstack' = [tstack EXCEPT ![Len(tstack)] = a]

SetBinding(modu, v) == bindings' = [bindings EXCEPT ![modu].value = v]

\* A plausible slip: the handler resets the inner types and rethrows, and
\* leaves the binding as it is.
Rollback_keeps_binding(a) ==
    UNCHANGED bindings

\* JL_CATCH of a type form, up to jl_rethrow: b->value = temp
Rollback(a) ==
    SetBinding(a.modu, a.temp)

\* A step of the type form `a` fails with x: inside the rollback scope the
\* handler runs first.
TdFail(op, a, x) ==
    /\ IF InRollbackScope(a) THEN Rollback(a) ELSE UNCHANGED bindings
    /\ PopThrow(x)
    /\ tev' = TdEvent(op, a.dt, InRollbackScope(a), FALSE, TRUE)

\* A plausible slip: a form that begins inside another definition is let through.
Refuses_never == FALSE

\* if (inside_typedef) jl_error(...)
Refuses == inside_typedef # 0

\* A type form begins.  It is refused when inside_typedef is set; otherwise
\* the evaluation of its parameters starts.
BeginTypedef ==
    /\ MayEnter
    /\ \E form \in TypeForms :
         IF Refuses
         THEN /\ tstatus' = IF tstack = <<>> THEN "failed" ELSE "unwinding"
              /\ exc' = ErrNestedTypedef(form.head)
              /\ tev' = TdEvent("typedef_refused", NULL, FALSE, FALSE, TRUE)
              /\ UNCHANGED tstack
         ELSE /\ tstack' = Append(tstack,
                   [kind |-> "typedef", form |-> form, pc |-> "para",
                    modu |-> jl_current_module, para |-> jl_emptysvec,
                    dt |-> NULL, temp |-> NULL])
              /\ tstatus' = "running"
              /\ tev' = TdEvent("typedef_begin", NULL, FALSE, FALSE, FALSE)
              /\ UNCHANGED exc
    /\ UNCHANGED <<jl_current_module, task_module, inside_typedef, bindings>>
    /\ hist' = NextHist
    /\ UNCHANGED <<bodyVarsButExc, callVars>>

\* From the new datatype to the entry of the rollback scope:
\*   b = jl_get_binding_wr(modu, name); temp = b->value;
\*   check_can_assign_type(b); b->value = dt; JL_TRY { inside_typedef = 1;
TdInstall(op, a, dt) ==
    LET b == bindings[a.modu] IN
    /\ IF check_can_assign_type(b)
       THEN /\ PopThrow(ErrRedefConst)
            /\ tev' = TdEvent(op, dt, FALSE, FALSE, TRUE)
            /\ UNCHANGED <<bindings, inside_typedef>>
       ELSE /\ SetBinding(a.modu, dt)
            /\ inside_typedef' = 1
            /\ SetTop([a EXCEPT !.dt = dt, !.temp = b.value, !.pc = "super"])
            /\ tev' = TdEvent(op, dt, FALSE, FALSE, FALSE)
            /\ UNCHANGED <<tstatus, exc>>

\* para = eval(args[1], s) returned
TdPara ==
    /\ AtEvalPoint /\ TTop.kind = "typedef" /\ TTop.pc = "para"
    /\ LET a == [TTop EXCEPT !.para = TTop.form.para] IN
         CASE a.form.head = "abstract_type" ->
                TdInstall("td_para", a, jl_new_abstracttype(NewObject, TypeName, a.para))
           [] a.form.head = "bits_type" ->
                /\ SetTop([a EXCEPT !.pc = "vnb"])
                /\ tev' = TdEvent("td_para", NULL, FALSE, FALSE, FALSE)
                /\ UNCHANGED <<bindings, inside_typedef, tstatus, exc>>
           [] OTHER ->
                /\ SetTop([a EXCEPT !.pc = "fnames"])
                /\ tev' = TdEvent("td_para", NULL, FALSE, FALSE, FALSE)
                /\ UNCHANGED <<bindings, inside_typedef, tstatus, exc>>
    /\ UNCHANGED <<jl_current_module, task_module>>
    /\ hist' = NextHist
    /\ UNCHANGED <<bodyVarsButExc, callVars>>

\* vnb = eval(args[2], s) returned (bits_type)
TdBits ==
    /\ AtEvalPoint /\ TTop.kind = "typedef" /\ TTop.pc = "vnb"
    /\ LET a == TTop
             vnb == a.form.vnb
             nb == jl_unbox_long(vnb) IN
         IF vnb.t # "long"
         THEN /\ TdFail("td_bits", a, ErrBitsDecl)
              /\ UNCHANGED inside_typedef
         ELSE IF nb < 1 \/ nb >= 2 ^ 23 \/ nb % 8 # 0
         THEN /\ TdFail("td_bits", a, ErrBitsNumber)
              /\ UNCHANGED inside_typedef
         ELSE TdInstall("td_bits", a, jl_new_bitstype(NewObject, TypeName, a.para, nb))
    /\ UNCHANGED <<jl_current_module, task_module>>
    /\ hist' = NextHist
    /\ UNCHANGED <<bodyVarsButExc, callVars>>

\* temp = eval(args[2], s) returned (composite_type, field names)
TdFieldNames ==
    /\ AtEvalPoint /\ TTop.kind = "typedef" /\ TTop.pc = "fnames"
    /\ LET fnames == TTop.form.fnames IN
         TdInstall("td_fnames", TTop,
                   jl_new_datatype(NewObject, TypeName, TTop.para, fnames,
                                   TTop.form.mutabl, Len(fnames)))
    /\ UNCHANGED <<jl_current_module, task_module>>
    /\ hist' = NextHist
    /\ UNCHANGED <<bodyVarsButExc, callVars>>

\* A plausible slip: the new type is always assigned.
Absorbed_never(dt, temp) == FALSE

\* !(temp==NULL || !equiv_type(dt, temp)): the redefinition is absorbed
Absorbed(dt, temp) == temp # NULL /\ equiv_type(dt, temp)

\* The end of a type form:
\*   b->value = temp;
\*   if (temp==NULL || !equiv_type(dt, temp)) jl_checked_assignment(b, dt);
\*   return jl_nothing;
TdFinish(op, a, dt) ==
    LET b == [bindings[a.modu] EXCEPT !.value = a.temp] IN
    IF Absorbed(dt, a.temp)
    THEN /\ SetBinding(a.modu, a.temp)
         /\ PopReturn
         /\ tev' = TdEvent(op, dt, FALSE, FALSE, FALSE)
         /\ UNCHANGED exc
    ELSE IF jl_checked_assignment_fails(b, dt)
    THEN /\ SetBinding(a.modu, a.temp)
         /\ PopThrow(ErrRedefConst)
         /\ tev' = TdEvent(op, dt, FALSE, TRUE, TRUE)
    ELSE /\ SetBinding(a.modu, dt)
         /\ PopReturn
         /\ tev' = TdEvent(op, dt, FALSE, TRUE, FALSE)
         /\ UNCHANGED exc

\* super = eval(args[..], s) returned, inside the rollback scope:
\*   jl_set_datatype_super(dt, super);
\* then, for abstract_type and bits_type, jl_reinstantiate_inner_types(dt)
\* and the end of the form; for composite_type the field types are next.
TdSuper ==
    /\ AtEvalPoint /\ TTop.kind = "typedef" /\ TTop.pc = "super"
    /\ \E reinst_throws \in BOOLEAN :
         LET a == TTop
             super == a.form.super
             dt == [a.dt EXCEPT !.super = super] IN
         IF jl_set_datatype_super_fails(a.dt, super)
         THEN TdFail("td_super", a, ErrSubtyping)
         ELSE IF a.form.head = "composite_type"
         THEN /\ ~reinst_throws
              /\ SetTop([a EXCEPT !.dt = dt, !.pc = "ftypes"])
              /\ SetBinding(a.modu, dt)
              /\ tev' = TdEvent("td_super", dt, FALSE, FALSE, FALSE)
              /\ UNCHANGED <<tstatus, exc>>
         ELSE IF reinst_throws
         THEN TdFail("td_reinstantiate", [a EXCEPT !.dt = dt], ReinstError)
         ELSE TdFinish("td_finish", a, dt)
    /\ UNCHANGED <<jl_current_module, task_module, inside_typedef>>
    /\ hist' = NextHist
    /\ UNCHANGED <<bodyVarsButExc, callVars>>

\* dt->types = eval(args[4], s) returned (composite_type): the check of the
\* field types, jl_reinstantiate_inner_types(dt), the end of the rollback
\* scope, jl_compute_field_offsets(dt), and the end of the form.
TdFieldTypes ==
    /\ AtEvalPoint /\ TTop.kind = "typedef" /\ TTop.pc = "ftypes"
    /\ \E reinst_throws \in BOOLEAN, offsets_throws \in BOOLEAN :
         LET a == TTop
             types == a.form.ftypes
             dt == [a.dt EXCEPT !.types = types] IN
         IF \E i \in 1..Len(types) : ~IsTypeOrTypeVar(types[i])
         THEN /\ ~reinst_throws /\ ~offsets_throws
              /\ TdFail("td_ftypes", [a EXCEPT !.dt = dt], ErrFieldType)
         ELSE IF reinst_throws
         THEN /\ ~offsets_throws
              /\ TdFail("td_reinstantiate", [a EXCEPT !.dt = dt], ReinstError)
         ELSE IF offsets_throws
         THEN \* thrown after the rollback scope: no handler of the form runs
              /\ SetBinding(a.modu, dt)
              /\ PopThrow(OffsetsError)
              /\ tev' = TdEvent("td_offsets", dt, FALSE, FALSE, TRUE)
         ELSE TdFinish("td_finish", a, jl_compute_field_offsets(dt))
    /\ UNCHANGED <<jl_current_module, task_module, inside_typedef>>
    /\ hist' = NextHist
    /\ UNCHANGED <<bodyVarsButExc, callVars>>

\* The evaluation of a sub-expression of a type form threw, by itself or out
\* of an evaluation it had entered.  Inside the rollback scope JL_CATCH
\* resets the inner types, restores the binding and rethrows; outside it the
\* exception leaves the form as it is.
TdUnwind ==
    /\ tstack # <<>> /\ TTop.kind = "typedef"
    /\ \/ tstatus = "running"
       \/ tstatus = "unwinding"
    /\ TdFail("td_unwind", TTop, IF tstatus = "unwinding" THEN exc ELSE EvalError)
    /\ UNCHANGED <<jl_current_module, task_module, inside_typedef>>
    /\ hist' = NextHist
    /\ UNCHANGED <<bodyVarsButExc, callVars>>

BodyIdle ==
    /\ istate = Thunk
    /\ stmts = <<>> /\ frames = <<>> /\ eh = <<>>
    /\ locals = [j \in 0..(jl_linfo_nslots + jl_linfo_nssavalues - 1) |-> NULL]
    /\ exc = NULL /\ status = "idle" /\ result = NULL
    /\ toplevel = FALSE /\ jl_lineno = 0 /\ ev = NoEvent

\* The driver evaluates forms through jl_interpret_toplevel_expr_in; what a
\* form evaluates is opaque but for the calls of the entry point it makes.
InitTop ==
    /\ BodyIdle
    /\ CallIdle
    /\ jl_current_module \in Modules
    /\ task_module \in Modules
    /\ inside_typedef = 0
    /\ bindings = [m \in Modules |-> [value |-> NULL, constp |-> FALSE]]
    /\ tstack = <<>> /\ tstatus = "idle"
    /\ tev = NoTopEvent
    /\ hist = NoHist

NextTop ==
    \/ BeginExprIn
    \/ ExprInReturn
    \/ ExprInCatch
    \/ DriverNextForm

SpecTop == InitTop /\ [][NextTop]_vars

\* The driver evaluates type forms through jl_interpret_toplevel_expr, in
\* the module Main.  The name is unbound, or a constant without a value yet
\* (declared by the const form the front end emits before the type form), or
\* a global or a constant that holds a value that is no type.
InitTypedef ==
    /\ BodyIdle
    /\ CallIdle
    /\ jl_current_module = "Main"
    /\ task_module = "Main"
    /\ inside_typedef = 0
    /\ \E v \in {NULL, NonTypeValue}, c \in BOOLEAN :
         bindings = [m \in Modules |-> [value |-> v, constp |-> c]]
    /\ tstack = <<>> /\ tstatus = "idle"
    /\ tev = NoTopEvent
    /\ hist = NoHist

NextTypedef ==
    \/ BeginTypedef
    \/ TdPara
    \/ TdBits
    \/ TdFieldNames
    \/ TdSuper
    \/ TdFieldTypes
    \/ TdUnwind
    \/ DriverNextForm

SpecTypedef == InitTypedef /\ [][NextTypedef]_vars

----------------------------------------------------------------------------
(* Properties of the body executor (checked under SpecBody).               *)

InBody(i) == i \in 0..(Len(stmts) - 1)

\* The step from the current state threw x' = ev'.raised while a handler of
\* this body was the innermost registered one.
ThrownToBodyHandler ==
    /\ status = "running" /\ frames # <<>>
    /\ ev'.raised # NULL
    /\ eh # <<>> /\ eh[Len(eh)].frame > 0

\* C1 (handler scoping): while the body runs, every handler of the body on
\* the handler stack belongs to an activation suspended at the `enter L`
\* that registered it;
\* a `return` executed in the protected region ends the whole body with the
\* value returned; and an exception thrown while that handler is the
\* innermost registered one is caught at exactly that enter: the activation
\* that executed the enter becomes the running one again, the activations
\* of the protected region are gone, and its instruction pointer is at
\* index L-1 (outside the body when L-1 is no index of it).
C1_HandlerScoping ==
    /\ [](\A p \in 1..Len(eh) :
            (status = "running" /\ eh[p].frame > 0) =>
              /\ eh[p].frame < Len(frames)
              /\ InBody(frames[eh[p].frame].i)
              /\ stmts[frames[eh[p].frame].i + 1] = EnterStmt(eh[p].label))
    /\ [][ThrownToBodyHandler =>
            LET h == eh[Len(eh)] IN
            /\ status' = "running"
            /\ Len(frames') = h.frame
            /\ \A j \in 1..(h.frame - 1) : frames'[j] = frames[j]
            /\ IF InBody(h.label - 1)
               THEN frames'[h.frame].i = h.label - 1
               ELSE frames'[h.frame].i >= Len(stmts)
            /\ exc' = ev'.raised
            /\ locals' = locals]_vars
    /\ [][(status = "running" /\ ev'.op = "return" /\ ev'.raised = NULL) =>
            (status' = "returned" /\ result' = ev'.r.v /\ frames' = <<>>)]_vars

\* C1 witness: an exception thrown in a protected region was caught at its
\* enter and the body resumed, in the activation of that enter, at the label,
\* where `return the_exception` is the next statement.
C1_Witness ==
    /\ ev.raised = UserError /\ status = "running" /\ frames # <<>>
    /\ ev.depth > Len(frames)
    /\ InBody(Top.i) /\ stmts[Top.i + 1] = ReturnStmt(TheException)
    /\ exc = UserError

\* C6 (slot access safety): an evaluation of slot n yields a present value,
\* the one stored in locals[n-1], only with 1 <= n <= nslots; otherwise it
\* raises "access to invalid slot number" (n out of range) or the
\* undefined-variable error naming slotnames[n-1] (entry absent), and the
\* step that raised changed no local, result or line counter.
C6_SlotAccessSafety ==
    [][ev'.e.k = "slot" =>
         LET n == ev'.e.n
             r == ev'.r
         IN
         IF r.ok
         THEN /\ 1 <= n /\ n <= NSlots
              /\ r.v # NULL
              /\ r.v = locals[n - 1]
              /\ ev'.raised \in {NULL, TypeErrorBool}
         ELSE /\ IF n < 1 \/ n > NSlots
                 THEN r.v = ErrorException("access to invalid slot number")
                 ELSE locals[n - 1] = NULL /\ r.v = UndefVarError(SlotNames[n])
              /\ ev'.raised = r.v /\ exc' = r.v
              /\ locals' = locals /\ result' = result /\ jl_lineno' = jl_lineno
              /\ status' # "returned"]_vars

\* C6 witness: `return slot1` with nothing stored raised UndefVarError(:x).
C6_Witness ==
    /\ ev.op = "return" /\ ev.e = SlotRef(1)
    /\ ~ev.r.ok /\ ev.r.v = UndefVarError("x")
    /\ status = "thrown"

\* C7 (SSA read-before-store), as claimed: a read of an in-range SSA temp
\* never yields an absent value; when nothing was stored it raises.
C7_SSAReadNeverAbsent ==
    (ev.e.k = "ssavalue" /\ ev.e.id >= 0 /\ ev.e.id < NSSAValues)
        => (ev.r.ok => ev.r.v # NULL)

\* C10 (a body must terminate in return): whenever the instruction pointer
\* of the running activation is at or past the end of the body, the next
\* step raises the "must terminate in return" error and nothing else; every
\* statement executed was fetched from inside the body; and the body ends
\* "returned" only through a return statement, with the value it evaluated.
C10_BodyMustReturn ==
    /\ [][(status = "running" /\ frames # <<>> /\ Top.i >= Len(stmts)) =>
            /\ ev'.op = "bodyend" /\ ev'.raised = ErrBodyEnd /\ exc' = ErrBodyEnd
            /\ status' # "returned"
            /\ locals' = locals /\ result' = result]_vars
    /\ [](ev.op \notin {"init", "bodyend"} => InBody(ev.idx))
    /\ [](status = "returned" => (ev.op = "return" /\ ev.r.ok /\ result = ev.r.v))

\* C10 witness: a label 0 sent the instruction pointer below index 0, which
\* as a size_t is past the end, and the error was raised there.
C10_Witness ==
    /\ ev.op = "bodyend" /\ ev.idx = ToSizeT(0 - 1) /\ exc = ErrBodyEnd

----------------------------------------------------------------------------
(* Properties of do_call (checked under SpecCall).                         *)

\* The entries of clog that belong to activation a, in order.
LogOf(a) == SelectSeq(clog, LAMBDA x : x.act = a)

\* The argument list of the activation a of the call expression e.
RECURSIVE ArgsOf(_, _)
ArgsOf(args, a) ==
    IF a = <<>> THEN args ELSE ArgsOf(args[a[1] + 1].args, Tail(a))

Activations == { clog[p].act : p \in 1..Len(clog) }

\* C5 (evaluation order of call): in every activation of do_call the
\* arguments are evaluated in index order 0, 1, 2, ... each once, dispatch
\* comes only after all n of them and at most once, and once an argument has
\* thrown nothing more is evaluated and nothing is dispatched (the values
\* collected are those of the arguments, in order).
C5_CallEvaluationOrder ==
    /\ [](\A a \in Activations :
            LET L == LogOf(a)
                m == Cardinality({p \in 1..Len(L) : L[p].op = "arg"})
            IN
            /\ \A p \in 1..m : L[p] = ArgEvent(a, p - 1)
            /\ Len(L) <= m + 1
            /\ (Len(L) = m + 1 => L[m + 1] = ApplyEvent(a)))
    /\ [][(clog' # clog /\ clog'[Len(clog')].op = "apply") =>
            /\ CTop.i = Len(CTop.args)
            /\ Len(CTop.argv) = Len(CTop.args)
            /\ Len(LogOf(CTop.act)) = Len(CTop.args)
            /\ \A p \in 1..Len(CTop.args) :
                 CTop.args[p].k # "call" => CTop.argv[p] = eval(CTop.args[p]).v]_vars
    /\ [][cstatus = "thrown" => clog' = clog]_vars
    /\ [][(cstatus' = "thrown" /\ clog'[Len(clog')].op = "arg") =>
            LET a == clog'[Len(clog')].act IN
            \A b \in Activations' :
              /\ ApplyEvent(b) \in {clog'[p] : p \in 1..Len(clog')} =>
                   (b # a /\ (Len(b) < Len(a) => SubSeq(a, 1, Len(b)) # b))]_vars

\* C5 witness: argument 1 of a three-argument call threw after argument 0
\* was evaluated: argument 2 was never evaluated and nothing was dispatched.
C5_Witness ==
    /\ cstatus = "thrown"
    /\ clog = <<ArgEvent(<<>>, 0), ArgEvent(<<>>, 1)>>
    /\ exc = UserError

\* The running activation is about to execute a goto_ifnot.
AtGotoIfNot == Running /\ ~PastEnd /\ CurStmt.k = "goto_ifnot"

\* C11: a goto_ifnot hands its condition to eval once and acts on what that
\* evaluation gave: on exactly the false constant the activation goes on at
\* index label-1, on exactly the true constant at index i+1, and on any other
\* value the type error demanding a boolean is raised and the activation
\* does not go on at either index: control passes to the innermost handler.
\* An evaluation that throws passes its own exception on.  No local changes.
C11_GotoIfNot ==
    [][AtGotoIfNot =>
         LET c == ev'.r
             here == Len(frames)
         IN
         /\ ev'.op = "goto_ifnot" /\ ev'.e = CurStmt.e /\ ev'.idx = Top.i
         /\ locals' = locals
         /\ IF c.ok /\ c.v = jl_false
            THEN /\ ev'.raised = NULL /\ status' = "running"
                 /\ Len(frames') = here
                 /\ frames'[here].i = ToSizeT(CurStmt.label - 1)
                 /\ UNCHANGED <<eh, exc>>
            ELSE IF c.ok /\ c.v = jl_true
            THEN /\ ev'.raised = NULL /\ status' = "running"
                 /\ Len(frames') = here
                 /\ frames'[here].i = Top.i + 1
                 /\ UNCHANGED <<eh, exc>>
            ELSE /\ ev'.raised = (IF c.ok THEN TypeErrorBool ELSE c.v)
                 /\ exc' = ev'.raised
                 /\ \/ status' \in {"thrown", "fatal"} /\ frames' = <<>>
                    \/ /\ status' = "running"
                       /\ Len(eh') = Len(eh) - 1
                       /\ Len(frames') = eh[Len(eh)].frame]_vars

\* C11 witness: a goto_ifnot whose condition was the false constant has taken
\* the branch backwards, to a label that is not the next statement.
C11_Witness ==
    /\ ev.op = "goto_ifnot" /\ ev.r = Ok(jl_false)
    /\ status = "running" /\ frames # <<>>
    /\ Top.i < ev.idx

\* The step about to run hands a slot or an SSA value to eval without a
\* frame (s == NULL, or s->lam == NULL with s->locals == NULL).
AtNoFrameReference ==
    /\ Running /\ ~PastEnd
    /\ istate.s # "frame"
    /\ CurStmt.k \in {"return", "assign", "goto_ifnot", "other"}
    /\ CurStmt.e.k \in {"ssavalue", "slot"}

\* C12 (local references without a frame), as claimed: evaluating an SSA
\* value or a slot when there is no frame, no lambda info or no locals raises
\* "access to invalid SSAValue" / "access to invalid slot number"; nothing
\* else happens (no fault, no value read from storage).
C12_NoFrameReference ==
    [][AtNoFrameReference =>
         /\ ev'.r = Throws(ErrorException(IF CurStmt.e.k = "ssavalue"
                                          THEN "access to invalid SSAValue"
                                          ELSE "access to invalid slot number"))
         /\ status' # "crashed"]_vars

AtLeave == Running /\ ~PastEnd /\ CurStmt.k = "leave" /\ CurStmt.n <= Len(eh)

\* C15 (leave pops handlers without jumping): a `leave N` step removes the N
\* innermost handlers from the handler stack and nothing else: the same
\* activation runs on at the next statement, no exception is in flight and
\* no local changes.  An exception thrown by the statement after the leave
\* is not caught at the enter whose region the leave closed (the enter that
\* made the running activation): it resumes at the innermost handler still
\* registered, in an activation further out, or it leaves the body when no
\* handler of the body is left.
C15_LeavePopsHandlers ==
    /\ [][AtLeave =>
            LET d == Len(frames) IN
            /\ eh' = SubSeq(eh, 1, Len(eh) - CurStmt.n)
            /\ Len(frames') = d
            /\ \A j \in 1..(d - 1) : frames'[j] = frames[j]
            /\ frames'[d].i = Top.i + 1
            /\ status' = "running" /\ exc' = exc /\ locals' = locals
            /\ ev'.raised = NULL]_vars
    /\ [][(Running /\ ev.op = "leave" /\ ev'.raised # NULL) =>
            IF eh = <<>>
            THEN status' = "fatal" /\ frames' = <<>>
            ELSE LET h == eh[Len(eh)] IN
                 /\ eh' = SubSeq(eh, 1, Len(eh) - 1)
                 /\ IF h.frame = 0
                    THEN status' = "thrown" /\ frames' = <<>>
                    ELSE /\ status' = "running"
                         /\ h.frame < ev.depth - 1
                         /\ Len(frames') = h.frame
                         /\ frames'[h.frame].i = ToSizeT(h.label - 1)]_vars

\* C15 witness: an error raised right after a `leave 1`, in the activation an
\* enter had made, was not caught in the body: it reached the caller.
C15_Witness ==
    /\ ev.raised = UserError /\ ev.depth >= 2
    /\ ev.idx >= 1 /\ stmts[ev.idx] = LeaveStmt(1)
    /\ status = "thrown" /\ exc = UserError

\* The two innermost handlers are handlers of the body: an inner enter was
\* reached in the protected region of an outer one, neither left.
TwoEntersActive ==
    /\ Running
    /\ Len(eh) >= 2
    /\ eh[Len(eh)].frame > 0 /\ eh[Len(eh) - 1].frame > 0

\* The last step threw and a handler of the body caught it: the running
\* activation is at the first statement of the handler code.
AtHandlerCode == Running /\ ev.raised # NULL /\ ev.depth > Len(frames)

\* C16 (handlers nest): with an outer `enter L1` and an inner `enter L2`
\* both active, an exception is caught by the inner enter only: its
\* activation resumes at index L2-1 and the outer handler is still the
\* innermost registered one, its activation still suspended at its enter.
\* An exception then thrown by the handler code is caught by the outer enter,
\* whose activation resumes at index L1-1.
C16_HandlersNest ==
    /\ [][(TwoEntersActive /\ ev'.raised # NULL) =>
            LET inner == eh[Len(eh)]
                outer == eh[Len(eh) - 1]
            IN
            /\ outer.frame < inner.frame
            /\ status' = "running"
            /\ Len(frames') = inner.frame
            /\ frames'[inner.frame].i = ToSizeT(inner.label - 1)
            /\ eh' = SubSeq(eh, 1, Len(eh) - 1)
            /\ eh'[Len(eh')] = outer
            /\ frames'[outer.frame] = frames[outer.frame]
            /\ StmtAt(frames'[outer.frame].i) = EnterStmt(outer.label)]_vars
    /\ [][(AtHandlerCode /\ eh # <<>> /\ eh[Len(eh)].frame > 0 /\ ev'.raised # NULL) =>
            LET outer == eh[Len(eh)] IN
            /\ outer.frame < Len(frames)
            /\ status' = "running"
            /\ Len(frames') = outer.frame
            /\ frames'[outer.frame].i = ToSizeT(outer.label - 1)
            /\ exc' = ev'.raised]_vars

\* C16 witness: the body starts with two enters; the error at the label of
\* the inner one was raised by its handler code (the only way there is a
\* catch) and the outer enter caught it.
C16_Witness ==
    /\ Len(stmts) >= 3
    /\ stmts[1].k = "enter" /\ stmts[2] = EnterStmt(3)
    /\ stmts[3] = OtherStmt(ErrorExpr(<<UserError>>))
    /\ ev.raised = UserError /\ ev.depth = 2 /\ ev.idx = 2
    /\ status = "running" /\ Len(frames) = 1
    /\ Top.i = ToSizeT(stmts[1].label - 1)

\* The entry of the locals a slot or an SSA value refers to.
LocalIndex(e) == IF e.k = "slot" THEN e.n - 1 ELSE jl_linfo_nslots + e.id

\* C17 (program-order visibility of locals): the locals change only in an
\* assignment step that raised nothing, which changes the destination entry
\* to the value of the right-hand side and no other entry, and in a new-var
\* step, which makes its slot absent and changes no other entry; every other
\* step, whatever it hands to eval, leaves them as they are; and a reference
\* to a slot or an SSA value that eval resolves yields the current content of
\* its entry, which is therefore what the latest such step in execution
\* order left there.
C17_LocalsProgramOrder ==
    /\ [][locals' # locals =>
            (ev'.op \in {"assign", "newvar"} /\ ev'.raised = NULL)]_vars
    /\ [][(Running /\ ev'.op = "assign" /\ ev'.raised = NULL) =>
            /\ ev'.r.ok
            /\ locals' = [locals EXCEPT ![LocalIndex(CurStmt.dest)] = ev'.r.v]]_vars
    /\ [][(Running /\ ev'.op = "newvar") =>
            locals' = [locals EXCEPT ![CurStmt.n - 1] = NULL]]_vars
    /\ [][(ev'.e.k \in {"slot", "ssavalue"} /\ ev'.r.ok) =>
            /\ LocalIndex(ev'.e) \in DOMAIN locals
            /\ ev'.r.v = locals[LocalIndex(ev'.e)]]_vars

\* C17 witness: slot 1 was assigned 7, the SSA temp 0 was assigned the slot,
\* and the body returned the temp: 7.
C17_Witness ==
    /\ Len(stmts) >= 3
    /\ stmts[1] = AssignStmt(SlotRef(1), Lit(BoxLong("7")))
    /\ stmts[2] = AssignStmt(SSARef(0), SlotRef(1))
    /\ ev.op = "return" /\ ev.e = SSARef(0) /\ ev.idx = 2
    /\ status = "returned" /\ result = BoxLong("7")

\* C20 (a new-var node resets its slot): a new-var step for slot n makes
\* locals[n-1] absent, whatever it held, changes no other local, raises
\* nothing and goes on to the next statement; an absent slot stays absent
\* until an assignment to that slot is executed; and a reference to a slot
\* in range whose entry is absent raises the undefined-variable error that
\* names slotnames[n-1].
C20_NewVarResetsSlot ==
    /\ [][(Running /\ ~PastEnd /\ CurStmt.k = "newvar") =>
            LET n == CurStmt.n IN
            /\ ev'.op = "newvar" /\ ev'.raised = NULL
            /\ locals'[n - 1] = NULL
            /\ \A j \in DOMAIN locals \ {n - 1} : locals'[j] = locals[j]
            /\ DOMAIN locals' = DOMAIN locals
            /\ status' = "running" /\ frames' = SetI(Top.i + 1)]_vars
    /\ [][\A n \in 1..jl_linfo_nslots :
            (locals[n - 1] = NULL /\ locals'[n - 1] # NULL) =>
                (ev'.op = "assign" /\ CurStmt.dest = SlotRef(n))]_vars
    /\ [][\A n \in 1..jl_linfo_nslots :
            (ev'.e = SlotRef(n) /\ locals[n - 1] = NULL) =>
                /\ ev'.r = Throws(UndefVarError(SlotNames[n]))
                /\ ev'.raised = UndefVarError(SlotNames[n])
                /\ exc' = UndefVarError(SlotNames[n])]_vars

\* C20 witness: slot 1 was assigned 7, the new-var node reset it, and the
\* return of the slot raised the undefined-variable error for x.
C20_Witness ==
    /\ Len(stmts) >= 3
    /\ stmts[1] = AssignStmt(SlotRef(1), Lit(BoxLong("7")))
    /\ stmts[2] = NewVarNode(1)
    /\ ev.op = "return" /\ ev.e = SlotRef(1) /\ ev.idx = 2
    /\ ev.raised = UndefVarError("x")
    /\ locals[0] = NULL

\* C21 (state after a caught exception): an enter records in its handler
\* the depth of the handler stack just before it; when a step throws and a
\* handler of the body is the innermost one, the activation that executed
\* that enter runs on at index label-1 with the same frame and with every
\* local as the protected region left it, and the handler stack is the one
\* of just before that enter.
C21_StateAfterCatch ==
    /\ [][(Running /\ ~PastEnd /\ CurStmt.k = "enter" /\ ev'.op = "enter") =>
            /\ Len(eh') = Len(eh) + 1
            /\ eh'[Len(eh')].prev = Len(eh)
            /\ SubSeq(eh', 1, Len(eh)) = eh]_vars
    /\ [][(Running /\ ev'.raised # NULL /\ eh # <<>> /\ eh[Len(eh)].frame > 0) =>
            LET h == eh[Len(eh)] IN
            /\ StmtAt(frames[h.frame].i) = EnterStmt(h.label)
            /\ status' = "running"
            /\ Len(frames') = h.frame
            /\ frames'[h.frame].i = ToSizeT(h.label - 1)
            /\ istate' = istate /\ stmts' = stmts
            /\ locals' = locals
            /\ eh' = SubSeq(eh, 1, h.prev)]_vars

\* C21 witness: slot 1 was assigned 7 in the protected region, the error
\* after it was caught, and the handler code returned the slot: 7, with the
\* handlers of the caller the only ones registered.
C21_Witness ==
    /\ stmts = <<EnterStmt(4), AssignStmt(SlotRef(1), Lit(BoxLong("7"))),
                 OtherStmt(ErrorExpr(<<UserError>>)), ReturnStmt(SlotRef(1))>>
    /\ status = "returned" /\ result = BoxLong("7")
    /\ exc = UserError
    /\ Len(eh) = CallerHandlers

\* The handlers on the stack s that enters of the body registered.
BodyHandlers(s) == Cardinality({p \in 1..Len(s) : s[p].frame > 0})

\* The handlers on the stack s that the caller had registered.
CallerLeft(s) == Cardinality({p \in 1..Len(s) : s[p].frame = 0})

\* The step is a normal return of the body.
ReturnsNormally == ev'.op = "return" /\ status' = "returned"

\* C22 (handler balance on return), as claimed: a normal return pops no
\* handler, handlers are popped only by leave and by unwinding, and when the
\* body has returned normally with every handler its enters registered
\* popped, the handler stack is as deep as at entry.
C22_AsStated ==
    /\ [][ReturnsNormally => eh' = eh]_vars
    /\ [][Len(eh') < Len(eh) => (ev'.op = "leave" \/ ev'.raised # NULL)]_vars
    /\ [](status = "returned" /\ BodyHandlers(eh) = 0 => Len(eh) = CallerHandlers)

\* C22, amended: a normal return pops no handler, handlers are popped only
\* by leave and by unwinding, and a handler of the caller is popped only by
\* a leave that pops more handlers than the body has registered or by an
\* exception that leaves the body; so when the body has returned normally
\* with every handler its enters registered popped, the handler stack is
\* what is left of the stack at entry: as deep as at entry when no leave
\* popped a handler that the body had not registered.
C22_HandlerBalance ==
    /\ [][ReturnsNormally => eh' = eh]_vars
    /\ [][Len(eh') < Len(eh) => (ev'.op = "leave" \/ ev'.raised # NULL)]_vars
    /\ [][CallerLeft(eh') < CallerLeft(eh) =>
            \/ ev'.op = "leave" /\ CurStmt.n > BodyHandlers(eh)
            \/ ev'.raised # NULL /\ eh[Len(eh)].frame = 0]_vars
    /\ [](status = "returned" /\ BodyHandlers(eh) = 0 =>
            /\ Len(eh) <= CallerHandlers
            /\ \A p \in 1..Len(eh) : eh[p] = [frame |-> 0, label |-> 0, prev |-> p - 1])

\* C22 witness: the protected region assigned slot 1, left its handler with
\* `leave 1` and returned the slot from the activation the enter had made;
\* the handlers of the caller are the only ones registered.
C22_Witness ==
    /\ stmts = <<EnterStmt(4), AssignStmt(SlotRef(1), Lit(BoxLong("7"))),
                 LeaveStmt(1), ReturnStmt(SlotRef(1))>>
    /\ status = "returned" /\ result = BoxLong("7")
    /\ ev.depth = 2
    /\ Len(eh) = CallerHandlers /\ BodyHandlers(eh) = 0

\* The body of the called lambda has not run a statement yet.
OnEntry == istate.s = "frame" /\ ev.op = "init" /\ status = "running"

\* The formal at index i is the variadic one.
IsVarargSlot(i) == istate.lam.isva /\ i = istate.lam.nargs - 1

\* C13 (argument binding of jl_interpret_call): on entry to the body the
\* locals are nslots + nssavalues entries; every actual at a position before
\* the variadic formal (any position when the lambda has none) is in the
\* local of its position; the variadic formal holds the tuple of the actuals
\* from its position on; every entry past the formals is absent, and a slot
\* among them read at the first statement raises the undefined-variable
\* error with its name.
C13_ArgumentBinding ==
    /\ [](OnEntry =>
            LET lam == istate.lam
                args == istate.args
            IN
            /\ DOMAIN locals = 0..(lam.nslots + NSSAValues - 1)
            /\ \A i \in 0..(Len(args) - 1) :
                   (~lam.isva \/ i < lam.nargs - 1) => locals[i] = args[i + 1]
            /\ lam.isva =>
                   /\ locals[lam.nargs - 1].t = "tuple"
                   /\ LET tail == locals[lam.nargs - 1].v IN
                      /\ Len(tail) = Len(args) - (lam.nargs - 1)
                      /\ \A q \in 1..Len(tail) : tail[q] = args[lam.nargs - 1 + q]
            /\ \A j \in lam.nargs..(lam.nslots + NSSAValues - 1) : locals[j] = NULL)
    /\ [][(OnEntry /\ CurStmt.k = "return" /\ CurStmt.e.k = "slot"
             /\ CurStmt.e.n > istate.lam.nargs /\ CurStmt.e.n <= istate.lam.nslots)
            => ev'.r = Throws(UndefVarError(SlotNames[CurStmt.e.n]))]_vars

\* C13 witness: a lambda of two formals, the last variadic, called with three
\* actuals, returned its second slot: the tuple of the last two actuals.
C13_Witness ==
    /\ istate.s = "frame" /\ istate.lam.isva /\ istate.lam.nargs = 2
    /\ Len(istate.args) = 3
    /\ ev.op = "return" /\ ev.e = SlotRef(2)
    /\ status = "returned"
    /\ result = [t |-> "tuple", v |-> <<BoxLong("2"), BoxLong("3")>>]

\* C14 (toplevel mode of jl_interpret_call), as claimed: the body runs in
\* toplevel mode exactly when the number of actuals passed is 0.
C14_ToplevelIffNoActuals ==
    (istate.s = "frame" /\ status # "idle")
        => (toplevel <=> Len(istate.args) = 0)

----------------------------------------------------------------------------
(* Properties of jl_interpret_toplevel_expr_in (checked under SpecTop).    *)
(* The field `before` of an activation is a record of the two cells at the *)
(* moment of the call, kept for the statement of the property only.        *)

ExprInEnds ==
    /\ tstack # <<>> /\ TTop.kind = "expr_in"
    /\ Len(tstack') = Len(tstack) - 1

\* C2: while the evaluation that jl_interpret_toplevel_expr_in(m, e, lam)
\* started is running, the process-current module and the current task's
\* current module both equal m; and when the call finishes, by returning a
\* value or by rethrowing what the evaluation threw, both cells hold again
\* the values they held immediately before the call.
C2_ModuleRestoration ==
    /\ [](tstatus = "running" /\ tstack # <<>> /\ TTop.kind = "expr_in"
            => jl_current_module = TTop.m /\ task_module = TTop.m)
    /\ [][ExprInEnds
            => <<jl_current_module', task_module'>> = TTop.before]_vars

\* A call made while the two cells differed has rethrown to the driver, and
\* the cells differ again.
C2_Witness ==
    /\ tev.op = "expr_in_catch" /\ tstatus = "failed"
    /\ jl_current_module # task_module

----------------------------------------------------------------------------
(* Properties of the type-definition forms (checked under SpecTypedef).    *)

\* The step ends the innermost type form.
TypedefEnds ==
    /\ tstack # <<>> /\ TTop.kind = "typedef"
    /\ Len(tstack') = Len(tstack) - 1

\* The step is the failure of the innermost type form.
TypedefFails == TypedefEnds /\ tev'.raised

\* The failure is one of a step inside JL_TRY: the evaluation of the
\* supertype or of the field types, jl_set_datatype_super, the check of the
\* field types, jl_reinstantiate_inner_types.
FailsInScope ==
    /\ TypedefFails /\ InRollbackScope(TTop)
    /\ tev'.op \in {"td_unwind", "td_super", "td_ftypes", "td_reinstantiate"}

\* The value the binding of the form held before the form wrote it.
ValueBefore ==
    IF TTop.dt = NULL THEN bindings[TTop.modu].value ELSE TTop.temp

\* C3: when a type form fails, at whichever step, the binding it names holds
\* after the failure the value it held before the attempt (possibly none),
\* and a failure inside the rollback scope has called
\* jl_reset_instantiate_inner_types before the exception is rethrown.
C3_TypedefAtomicity ==
    [][TypedefFails
         => /\ bindings'[TTop.modu].value = ValueBefore
            /\ (FailsInScope => tev'.reset)]_vars

NestedTypedefErrors == {ErrNestedTypedef(f.head) : f \in TypeForms}

DeclaredBy(form, dt) ==
    /\ jl_is_datatype(dt)
    /\ ~dt.abstract
    /\ dt.name = TypeName
    /\ dt.parameters = form.para
    /\ dt.names = form.fnames
    /\ dt.types = form.ftypes
    /\ dt.mutabl = form.mutabl
    /\ dt.super = form.super
    /\ dt.ninitialized = Len(form.fnames)
    /\ dt.size = 8 * Len(form.ftypes)

\* The equivalence of C4, spelled out.
SameDeclaration(dta, dtb) ==
    /\ jl_is_datatype(dta) /\ jl_is_datatype(dtb)
    /\ dta.parameters = <<>> /\ dtb.parameters = <<>>
    /\ dta.name = dtb.name
    /\ dta.types = dtb.types
    /\ dta.names = dtb.names
    /\ dta.abstract = dtb.abstract
    /\ dta.mutabl = dtb.mutabl
    /\ dta.size = dtb.size
    /\ dta.ninitialized = dtb.ninitialized
    /\ dta.super = dtb.super

CompositeFinishes ==
    /\ TypedefEnds
    /\ TTop.form.head = "composite_type"
    /\ tev'.op = "td_finish"

\* C4: when a non-parametric composite type is declared and the binding
\* holds a datatype with the same name, field types, field names, abstract
\* and mutable flags, size, ninitialized and supertype, the binding still
\* holds that previous object when the form completes and no checked
\* assignment is made; in particular a declaration repeated over the type it
\* made leaves the binding as it is.
C4_IdempotentReload ==
    /\ [][CompositeFinishes /\ TTop.para = <<>>
            /\ SameDeclaration(tev'.dt, TTop.temp)
            => /\ bindings'[TTop.modu].value = TTop.temp
               /\ ~tev'.assigned /\ ~tev'.raised]_vars
    /\ [][CompositeFinishes /\ TTop.form.para = <<>>
            /\ DeclaredBy(TTop.form, TTop.temp)
            => bindings'[TTop.modu] = [bindings[TTop.modu] EXCEPT !.value = TTop.temp]]_vars

\* A composite declaration over the type an earlier evaluation of it made has
\* completed: the binding holds the earlier object, not the one just built.
C4_Witness ==
    /\ tev.op = "td_finish" /\ ~tev.assigned /\ ~tev.raised
    /\ tstatus = "done"
    /\ jl_is_datatype(bindings["Main"].value)
    /\ ~bindings["Main"].value.abstract
    /\ bindings["Main"].value.names = <<"a">>
    /\ bindings["Main"].value.uid # tev.dt.uid
    /\ SameDeclaration(tev.dt, bindings["Main"].value)

\* C8: inside_typedef is set as long as a type form is inside its rollback
\* scope; a type form that begins while the flag is set fails at once, with
\* nothing evaluated, no type made and no binding read or written; and the
\* enclosing form, if inside its rollback scope, then resets, restores its
\* binding and rethrows the same error.
C8_NestedTypedefRefused ==
    /\ [](\A i \in 1..Len(tstack) :
            InRollbackScope(tstack[i]) => inside_typedef = 1)
    /\ [][tev'.op = "typedef_begin" /\ Len(tstack') = Len(tstack) + 1
            => inside_typedef = 0]_vars
    /\ [][tev'.op = "typedef_refused" /\ tstatus = "running"
            => /\ UNCHANGED <<tstack, bindings, inside_typedef>>
               /\ tev'.raised /\ tev'.dt = NULL
               /\ exc' \in NestedTypedefErrors]_vars
    /\ [][tev.op = "typedef_refused" /\ tstack # <<>> /\ InRollbackScope(TTop)
            => /\ Len(tstack') = Len(tstack) - 1
               /\ tev'.raised /\ tev'.reset
               /\ bindings'[TTop.modu].value = TTop.temp
               /\ exc' = exc]_vars

\* A form begun inside the rollback scope of another was refused, the
\* enclosing form rolled back, and the refusal reached the driver.
C8_Witness ==
    /\ tev.op = "td_unwind" /\ tev.reset
    /\ tstatus = "failed"
    /\ exc \in NestedTypedefErrors
    /\ inside_typedef = 1

\* The evaluation of the field types of the innermost composite form throws.
FieldTypesThrow ==
    /\ TypedefEnds
    /\ TTop.form.head = "composite_type" /\ TTop.pc = "ftypes"
    /\ tstatus = "running" /\ tev'.op = "td_unwind"

\* The same form, evaluated again as the next top-level form, reaches its end.
RetryFinishes ==
    /\ hist.phase = "retrying"
    /\ Len(tstack) = 1 /\ TypedefEnds
    /\ tev'.op = "td_finish"

\* jl_checked_assignment refuses the new type: the name is a constant that
\* holds another type.
RefusedAsConstant ==
    /\ bindings[TTop.modu].constp
    /\ jl_is_datatype(TTop.temp)
    /\ ~SameDeclaration(tev'.dt, TTop.temp)

\* C9 as stated: after a composite form has failed because the evaluation of
\* its field types threw, the binding holds its prior value, and the same
\* form evaluated next is not rejected as a nested definition and ends with
\* the name bound to the new type.
C9_AsStated ==
    /\ [][FieldTypesThrow => bindings'[TTop.modu].value = TTop.temp]_vars
    /\ [][hist.phase = "failed" /\ tstatus = "idle"
            => tev'.op # "typedef_refused"]_vars
    /\ [][RetryFinishes
            => /\ ~tev'.raised
               /\ bindings'[TTop.modu].value = tev'.dt]_vars

\* C9, amended: after a composite form has failed because the evaluation of
\* its field types threw, the binding holds its prior value, and the same
\* form evaluated as the next top-level form is not rejected as a nested
\* definition; when it reaches its end, the name is bound to the new type, or
\* still to the prior type when that one is equivalent, or the checked
\* assignment refuses it because the name is a constant that holds another
\* type, and then the binding keeps its prior value.
C9_FailedTypedefDoesNotBlock ==
    /\ [][FieldTypesThrow => bindings'[TTop.modu].value = TTop.temp]_vars
    /\ [][hist.phase = "failed" /\ tstatus = "idle"
            => tev'.op # "typedef_refused"]_vars
    /\ [][RetryFinishes
            => IF tev'.raised
               THEN /\ RefusedAsConstant
                    /\ bindings'[TTop.modu].value = TTop.temp
               ELSE \/ bindings'[TTop.modu].value = tev'.dt
                    \/ /\ SameDeclaration(tev'.dt, TTop.temp)
                       /\ bindings'[TTop.modu].value = TTop.temp]_vars

\* A composite form failed on its field types with the name unbound, and the
\* same form, evaluated next, has completed and bound the name to its type.
C9_Witness ==
    /\ hist.phase = "retried" /\ hist.form.head = "composite_type"
    /\ tev.op = "td_finish" /\ tev.assigned /\ ~tev.raised
    /\ tstatus = "done"
    /\ bindings["Main"].value = tev.dt

\* C18 (binding visibility during a type definition), as claimed: while a
\* type form is inside its rollback scope the binding it names holds the
\* type in progress; a form that succeeds with the previous value absent or
\* not equivalent leaves the new type in the binding through the checked
\* assignment; and whenever a form ends with its type in the binding, it is
\* the checked assignment of a successful form that put it there.
C18_BindingVisibility ==
    /\ [](\A p \in 1..Len(tstack) :
            InRollbackScope(tstack[p])
                => bindings[tstack[p].modu].value = tstack[p].dt)
    /\ [][(TypedefEnds /\ ~tev'.raised /\ ~Absorbed(tev'.dt, TTop.temp))
            => (tev'.assigned /\ bindings'[TTop.modu].value = tev'.dt)]_vars
    /\ [][(TypedefEnds /\ tev'.dt # NULL /\ bindings'[TTop.modu].value = tev'.dt)
            => (tev'.assigned /\ ~tev'.raised)]_vars

\* The binding the innermost type form names is a constant that holds a
\* value that is no datatype.
NamesConstantNonType ==
    /\ tstack # <<>> /\ TTop.kind = "typedef"
    /\ LET b == bindings[TTop.modu] IN
       b.constp /\ b.value # NULL /\ ~jl_is_datatype(b.value)

\* C19 (a constant that holds a non-type is not redefined): no step of a type
\* form that names such a binding changes the binding or inside_typedef or
\* takes the form into its rollback scope, and the step that has made the
\* new type ends the form with "invalid redefinition of constant Foo",
\* without a handler of the form having run.
C19_ConstantNonTypeRefused ==
    [][NamesConstantNonType =>
         /\ bindings' = bindings
         /\ inside_typedef' = inside_typedef
         /\ Len(tstack') >= Len(tstack) => ~InRollbackScope(tstack'[Len(tstack)])
         /\ tev'.dt # NULL =>
              /\ TypedefFails
              /\ exc' = ErrRedefConst
              /\ ~tev'.reset /\ ~tev'.assigned]_vars

\* C19 witness: a form that named a constant holding a non-type made its
\* type and was refused; the constant holds its value, the flag is clear.
C19_Witness ==
    /\ tev.dt # NULL /\ tev.raised /\ exc = ErrRedefConst
    /\ tstatus = "failed"
    /\ bindings["Main"] = [value |-> NonTypeValue, constp |-> TRUE]
    /\ inside_typedef = 0

====
